---- MODULE Spec2Model ----
(***************************************************************************)
(* Model of the image-similarity crate: the pHash extractor                *)
(* (compute_phash), the scorer (hamming_distance) and the two batch        *)
(* rankers (similarity_directory, similarity_file_directory) of            *)
(* src/src/image_similarity/image_similarity.rs.                           *)
(*                                                                         *)
(* f64 values are modelled as exact rationals plus NaN and the two         *)
(* infinities; DCT coefficients are integers.  A String is a sequence of   *)
(* one-byte characters.  Result/Option values are records with a "tag".    *)
(***************************************************************************)
EXTENDS Integers, Sequences, FiniteSets

VARIABLES
    build,           \* "debug": integer overflow checks on; "release": wrapping
    pc,              \* position of the program: "start", then the name of
                     \* what has run
    fp_a, fp_b,      \* the two strings handed to hamming_distance
    ret, ret_rev,    \* outcome of hamming_distance(fp_a, fp_b) / (fp_b, fp_a)
    img, length, dct_length,   \* arguments of compute_phash
    phash_ret,       \* outcome of compute_phash(img, length, dct_length)
    walk,            \* the entries WalkDir yields for the directory, in order
    allowed_ext,     \* the allowed extensions
    query,           \* the image handed to similarity_file_directory
    all_image_file,  \* outcome of compute_phash_directory: the corpus
    result           \* outcome of the batch operation

vars == <<build, pc, fp_a, fp_b, ret, ret_rev, img, length, dct_length,
          phash_ret, walk, allowed_ext, query, all_image_file, result>>

----------------------------------------------------------------------------
(* Bounds of the model *)

\* longest string handed to hamming_distance on its own
MaxLen == 3
\* largest resize length / dct block handed to compute_phash on its own
MaxN == 2
MaxK == 2
\* DCT coefficients range over 0..MaxCoef
MaxCoef == 1
\* most entries a directory walk yields
MaxFiles == 3

None == [tag |-> "None"]
Panic == [tag |-> "Panic"]
NotCalled == [tag |-> "NotCalled"]

----------------------------------------------------------------------------
(* f64 arithmetic *)

Abs(n) == IF n < 0 THEN -n ELSE n

RECURSIVE GCD(_, _)
GCD(m, n) == IF n = 0 THEN m ELSE GCD(n, m % n)

NaN == [kind |-> "nan"]
Inf(negative) == [kind |-> "inf", neg |-> negative]

\* the f64 n/d, d > 0, in lowest terms
Rat(n, d) ==
    LET g == GCD(Abs(n), d)
    IN  [kind |-> "num", num |-> n \div g, den |-> d \div g]

F64(n) == Rat(n, 1)

F64Div(x, y) ==
    IF x.kind = "nan" \/ y.kind = "nan" THEN NaN
    ELSE IF x.kind = "inf"
         THEN IF y.kind = "inf" THEN NaN
              ELSE Inf(x.neg # (y.num < 0))
    ELSE IF y.kind = "inf" THEN F64(0)
    ELSE IF y.num = 0
         THEN IF x.num = 0 THEN NaN ELSE Inf(x.num < 0)
    ELSE IF y.num > 0 THEN Rat(x.num * y.den, x.den * y.num)
    ELSE Rat(-(x.num * y.den), x.den * (-y.num))

F64Sub(x, y) ==
    IF x.kind = "nan" \/ y.kind = "nan" THEN NaN
    ELSE IF x.kind = "inf"
         THEN IF y.kind = "inf" /\ y.neg = x.neg THEN NaN ELSE x
    ELSE IF y.kind = "inf" THEN Inf(~y.neg)
    ELSE Rat(x.num * y.den - y.num * x.den, x.den * y.den)

\* x < y on f64: false as soon as one side is NaN
F64Lt(x, y) ==
    IF x.kind = "nan" \/ y.kind = "nan" THEN FALSE
    ELSE IF x.kind = "inf" THEN x.neg /\ ~(y.kind = "inf" /\ y.neg)
    ELSE IF y.kind = "inf" THEN ~y.neg
    ELSE x.num * y.den < y.num * x.den

\* f64::partial_cmp
partial_cmp(x, y) ==
    IF x.kind = "nan" \/ y.kind = "nan" THEN None
    ELSE IF F64Lt(x, y) THEN [tag |-> "Some", val |-> "Less"]
    ELSE IF F64Lt(y, x) THEN [tag |-> "Some", val |-> "Greater"]
    ELSE [tag |-> "Some", val |-> "Equal"]

----------------------------------------------------------------------------
(* hamming_distance *)

\* len1 - len2 on usize: panics with overflow checks, wraps without them.
\* A negative val stands for the wrapped value 2^64 + val, which is not 0.
UsizeSub(len1, len2) ==
    IF len1 >= len2 THEN [tag |-> "Ok", val |-> len1 - len2]
    ELSE IF build = "debug" THEN Panic
    ELSE [tag |-> "Ok", val |-> len1 - len2]

\* a.chars().nth(i), i counted from 0
CharsNth(s, i) ==
    IF i < Len(s) THEN [tag |-> "Some", val |-> s[i + 1]] ELSE None

\* a variant of the loop that counts the positions where a and b agree
DistSteps_agree(a, b, lo, hi) ==
    Cardinality({i \in lo..(hi - 1) : CharsNth(a, i) = CharsNth(b, i)})

\* the loop `for i in lo..hi`: the positions where a and b differ (the
\* range is split in two halves to keep the evaluation shallow)
RECURSIVE DistSteps(_, _, _, _)
DistSteps(a, b, lo, hi) ==
    IF lo >= hi THEN 0
    ELSE IF hi = lo + 1
         THEN (IF CharsNth(a, lo) # CharsNth(b, lo) THEN 1 ELSE 0)
    ELSE LET mid == (lo + hi) \div 2
         IN  DistSteps(a, b, lo, mid) + DistSteps(a, b, mid, hi)

hamming_distance(a, b) ==
    LET len1 == Len(a)
        len2 == Len(b)
        diff == UsizeSub(len1, len2)
    IN  IF diff.tag = "Panic" THEN Panic
        ELSE IF diff.val = 0
             THEN [tag |-> "Ok",
                   val |-> F64Sub(F64(1), F64Div(F64(DistSteps(a, b, 0, len1)),
                                                 F64(len1)))]
        ELSE IF len1 = 0 THEN [tag |-> "Ok", val |-> F64(0)]
        ELSE IF len2 = 0 THEN [tag |-> "Ok", val |-> F64(0)]
        ELSE [tag |-> "Ok", val |-> F64(0)]

----------------------------------------------------------------------------
(* compute_phash *)

\* An image (Mat) is [channels, cv_ok, coef]: its channel count, whether the
\* OpenCV calls on it (clone/cvt_color, resize, convert_to, dct) succeed, and
\* the coefficients its DCT buffer holds, repeated to fill the buffer when
\* the buffer is longer than coef.

Err(kind) == [tag |-> "Err", reason |-> kind]
Ok(v) == [tag |-> "Ok", val |-> v]

\* the grayscale, resized image, or the error of the channel match / OpenCV
assert_gray_and_size(image, len) ==
    IF image.channels \notin {1, 3, 4} THEN Err("channels")
    ELSE IF ~image.cv_ok \/ len <= 0 THEN Err("OpenCV")
    ELSE Ok(image)

\* the len x len buffer dct() fills, stored row by row
DctOf(image, len) == [total |-> len * len, coef |-> image.coef]

\* Mat::at(i0): the element at flat (row-major) index i0, an error outside
at(mat, i0) ==
    IF 0 <= i0 /\ i0 < mat.total
    THEN Ok(mat.coef[(i0 % Len(mat.coef)) + 1])
    ELSE Err("OpenCV")

\* the flat index read at step p of `for row in 0..K { for col in 0..K`
BlockIndex(p, len, dct_len) == (p \div dct_len) + (p % dct_len) * len

\* the first loop: the sum of the block over the steps lo..hi-1, or the
\* first error (the steps are split in two halves to keep the evaluation
\* shallow; the left half comes first)
RECURSIVE SumSteps(_, _, _, _, _)
SumSteps(mat, lo, hi, len, dct_len) ==
    IF lo >= hi THEN Ok(0)
    ELSE IF hi = lo + 1 THEN at(mat, BlockIndex(lo, len, dct_len))
    ELSE LET mid == (lo + hi) \div 2
             left == SumSteps(mat, lo, mid, len, dct_len)
         IN  IF left.tag = "Err" THEN left
             ELSE LET right == SumSteps(mat, mid, hi, len, dct_len)
                  IN  IF right.tag = "Err" THEN right
                      ELSE Ok(left.val + right.val)

\* the second loop: the bit pushed at step p
PhashBit(mat, p, len, dct_len, mean) ==
    IF F64Lt(F64(at(mat, BlockIndex(p, len, dct_len)).val), mean)
    THEN "0" ELSE "1"

compute_phash(image, len, dct_len) ==
    LET resized_gray == assert_gray_and_size(image, len)
    IN  IF resized_gray.tag = "Err" THEN resized_gray
        ELSE
        LET dct_img == DctOf(resized_gray.val, len)
            sum == SumSteps(dct_img, 0, dct_len * dct_len, len,
                            dct_len)
            first == at(dct_img, 0)
        IN  IF sum.tag = "Err" THEN sum
            ELSE IF first.tag = "Err" THEN first
            ELSE
            LET mean == F64Div(F64(sum.val - first.val), F64(len * len - 1))
            IN  Ok([p \in 1..(dct_len * dct_len) |->
                       PhashBit(dct_img, p - 1, len, dct_len, mean)])

----------------------------------------------------------------------------
(* compute_phash_directory *)

\* resize length and dct length of every batch fingerprint
RESIZE_LENGTH == 64
DCT_LENGTH == 16

Image(ch, ok, c) == [channels |-> ch, cv_ok |-> ok, coef |-> c]

Img1 == Image(1, TRUE, <<1, 0>>)
Img2 == Image(1, TRUE, <<1, 0, 0>>)
Img3 == Image(1, TRUE, <<1, 1, 0, 1, 0>>)
Img4 == Image(3, TRUE, <<0, 1, 1>>)
\* what imread gives for a file it cannot decode: resize fails on it
ImgEmpty == Image(1, FALSE, <<0>>)
ImgTwoChannels == Image(2, TRUE, <<1, 0>>)

\* the images of the model's file system and command line
Images == {Img1, Img2, Img3, Img4, ImgEmpty, ImgTwoChannels}

\* compute_phash(&img, 64, 16) for every image, evaluated once
Phash64x16 ==
    [image \in Images |-> compute_phash(image, RESIZE_LENGTH, DCT_LENGTH)]

\* A path is a sequence of bytes; BadByte is a byte that is not valid UTF-8.
BadByte == "<FF>"

\* Path::to_str(): None for a path that is not valid UTF-8
to_str(path) ==
    IF \E i \in 1..Len(path) : path[i] = BadByte THEN None
    ELSE [tag |-> "Some", val |-> path]

\* filepath.split('.') ... parts[parts.len() - 1]: what follows the last '.',
\* the whole string when it has none
RECURSIVE LastPart(_)
LastPart(s) ==
    IF s = <<>> THEN <<>>
    ELSE IF s[Len(s)] = "." THEN <<>>
    ELSE Append(LastPart(SubSeq(s, 1, Len(s) - 1)), s[Len(s)])

\* allowed_ext.iter().find(|ext| ext == parts[parts.len() - 1]) is Some
ExtAllowed(filepath, exts) ==
    \E i \in 1..Len(exts) : exts[i] = LastPart(filepath)

\* The filter_map chain over the entries from position i on: walk errors
\* are dropped, a path that is not UTF-8 panics in unwrap(), a file with no
\* allowed extension, an imread error or a compute_phash error is dropped.
RECURSIVE PhashDirectoryFrom(_, _, _)
PhashDirectoryFrom(entries, i, exts) ==
    IF i > Len(entries) THEN Ok(<<>>)
    ELSE
    LET e == entries[i]
        rest == PhashDirectoryFrom(entries, i + 1, exts)
    IN  IF e.tag = "Err" THEN rest
        ELSE IF to_str(e.path) = None THEN Panic
        ELSE IF ~ExtAllowed(e.path, exts) THEN rest
        ELSE IF e.imread.tag = "Err" THEN rest
        ELSE LET phash == Phash64x16[e.imread.val]
             IN  IF phash.tag = "Err" THEN rest
                 ELSE IF rest.tag = "Panic" THEN Panic
                 ELSE Ok(<<(<<e.path, phash.val>>)>> \o rest.val)

compute_phash_directory(entries, exts) == PhashDirectoryFrom(entries, 1, exts)

----------------------------------------------------------------------------
(* similarity_directory and similarity_file_directory *)

\* a variant of the sort with the comparison the other way round
RECURSIVE InsertDesc_asc(_, _)
InsertDesc_asc(sorted, x) ==
    IF sorted = <<>> THEN <<x>>
    ELSE IF partial_cmp(sorted[1][1], x[1]).val = "Greater"
         THEN <<x>> \o sorted
    ELSE <<sorted[1]>> \o InsertDesc_asc(Tail(sorted), x)

\* result.sort_by(|a, b| b.0.partial_cmp(&a.0).unwrap()): x goes before the
\* first element whose score is strictly below its own
RECURSIVE InsertDesc(_, _)
InsertDesc(sorted, x) ==
    IF sorted = <<>> THEN <<x>>
    ELSE IF partial_cmp(sorted[1][1], x[1]).val = "Less"
         THEN <<x>> \o sorted
    ELSE <<sorted[1]>> \o InsertDesc(Tail(sorted), x)

RECURSIVE StableSortDesc(_, _)
StableSortDesc(list, n) ==
    IF n = 0 THEN <<>>
    ELSE InsertDesc(StableSortDesc(list, n - 1), list[n])

\* every element of a list of two or more is compared, and unwrap() panics
\* on the comparison of a NaN
sort_by(list) ==
    IF Len(list) >= 2 /\ \E i \in 1..Len(list) : list[i][1].kind = "nan"
    THEN Panic
    ELSE Ok(StableSortDesc(list, Len(list)))

\* a variant of the loops whose inner loop starts at a_index
RECURSIVE PairsFrom_self(_, _, _)
PairsFrom_self(a_index, b_index, m) ==
    IF a_index > m - 1 THEN <<>>
    ELSE IF b_index > m THEN PairsFrom_self(a_index + 1, a_index + 1, m)
    ELSE <<(<<a_index, b_index>>)>> \o PairsFrom_self(a_index, b_index + 1, m)

\* the pairs (a_index, b_index) of the two nested loops, in loop order,
\* a_index and b_index counted from 1
RECURSIVE PairsFrom(_, _, _)
PairsFrom(a_index, b_index, m) ==
    IF a_index > m - 1 THEN <<>>
    ELSE IF b_index > m THEN PairsFrom(a_index + 1, a_index + 2, m)
    ELSE <<(<<a_index, b_index>>)>> \o PairsFrom(a_index, b_index + 1, m)

\* the two nested loops of the `_` arm of similarity_directory: one result
\* pushed per pair, in loop order
RECURSIVE ScorePairs(_, _)
ScorePairs(all, pairs) ==
    IF pairs = <<>> THEN Ok(<<>>)
    ELSE
    LET img_a_data == all[pairs[1][1]]
        img_b_data == all[pairs[1][2]]
        dist == hamming_distance(img_a_data[2], img_b_data[2])
    IN  IF dist.tag = "Panic" THEN Panic
        ELSE LET rest == ScorePairs(all, Tail(pairs))
             IN  IF rest.tag = "Panic" THEN Panic
                 ELSE Ok(<<(<<dist.val, img_a_data[1], img_b_data[1]>>)>>
                         \o rest.val)

\* the `_` arm of similarity_directory: every pair scored, then sorted
RankPairs(all) ==
    LET unsorted == ScorePairs(all, PairsFrom(1, 2, Len(all)))
    IN  IF unsorted.tag = "Panic" THEN Panic
        ELSE LET sorted == sort_by(unsorted.val)
             IN  IF sorted.tag = "Panic" THEN Panic
                 ELSE [tag |-> "Some", val |-> sorted.val]

\* a variant of similarity_directory without the arm for a corpus of one
similarity_directory_no_one(entries, exts) ==
    LET files == compute_phash_directory(entries, exts)
    IN  IF files.tag = "Panic" THEN Panic
        ELSE IF Len(files.val) = 0 THEN None
        ELSE RankPairs(files.val)

similarity_directory(entries, exts) ==
    LET files == compute_phash_directory(entries, exts)
    IN  IF files.tag = "Panic" THEN Panic
        ELSE IF Len(files.val) = 0 THEN None
        ELSE IF Len(files.val) = 1
             THEN [tag |-> "Some",
                   val |-> <<(<<F64(1), files.val[1][1], files.val[1][1]>>)>>]
        ELSE RankPairs(files.val)

\* the map of similarity_file_directory over the corpus from entry k on
RECURSIVE ScoreAgainst(_, _, _)
ScoreAgainst(image_phash, all, k) ==
    IF k > Len(all) THEN Ok(<<>>)
    ELSE
    LET image_data == all[k]
        dist == hamming_distance(image_phash, image_data[2])
    IN  IF dist.tag = "Panic" THEN Panic
        ELSE LET rest == ScoreAgainst(image_phash, all, k + 1)
             IN  IF rest.tag = "Panic" THEN Panic
                 ELSE Ok(<<(<<dist.val, image_data[1]>>)>> \o rest.val)

similarity_file_directory(image, entries, exts) ==
    LET image_phash == Phash64x16[image]
    IN  IF image_phash.tag = "Err" THEN image_phash
        ELSE
        LET files == compute_phash_directory(entries, exts)
        IN  IF files.tag = "Panic" THEN Panic
            ELSE IF Len(files.val) = 0 THEN Ok(None)
            ELSE
            LET unsorted == ScoreAgainst(image_phash.val, files.val, 1)
            IN  IF unsorted.tag = "Panic" THEN Panic
                ELSE LET sorted == sort_by(unsorted.val)
                     IN  IF sorted.tag = "Panic" THEN Panic
                         ELSE Ok([tag |-> "Some", val |-> sorted.val])

----------------------------------------------------------------------------
(* The scorer on its own: hamming_distance applied to two bit strings *)

Bit == {"0", "1"}
BitStrings(n) == UNION {[1..k -> Bit] : k \in 0..n}
Builds == {"debug", "release"}

NoImage == [tag |-> "NoImage"]

ScoreInit ==
    /\ build \in Builds
    /\ pc = "start"
    /\ fp_a \in BitStrings(MaxLen)
    /\ fp_b \in BitStrings(MaxLen)
    /\ ret = NotCalled
    /\ ret_rev = NotCalled
    /\ img = NoImage /\ length = 0 /\ dct_length = 0
    /\ phash_ret = NotCalled
    /\ walk = <<>> /\ allowed_ext = <<>> /\ query = NoImage
    /\ all_image_file = NotCalled
    /\ result = NotCalled

\* hamming_distance(&fp_a, &fp_b)
Score ==
    /\ ret = NotCalled
    /\ ret' = hamming_distance(fp_a, fp_b)
    /\ pc' = IF ret_rev # NotCalled THEN "done" ELSE pc
    /\ UNCHANGED <<build, fp_a, fp_b, ret_rev, img, length, dct_length,
                   phash_ret, walk, allowed_ext, query, all_image_file,
                   result>>

\* hamming_distance(&fp_b, &fp_a)
ScoreRev ==
    /\ ret_rev = NotCalled
    /\ ret_rev' = hamming_distance(fp_b, fp_a)
    /\ pc' = IF ret # NotCalled THEN "done" ELSE pc
    /\ UNCHANGED <<build, fp_a, fp_b, ret, img, length, dct_length,
                   phash_ret, walk, allowed_ext, query, all_image_file,
                   result>>

ScoreNext == Score \/ ScoreRev

SpecScore == ScoreInit /\ [][ScoreNext]_vars

\* number of positions where two strings of equal length differ
Differing(a, b) == Cardinality({i \in 1..Len(a) : a[i] # b[i]})

\* C1: strings of different lengths, in either order, score 0.0 and the
\* scorer neither fails nor aborts.
C1_MismatchScoresZero ==
    (ret # NotCalled /\ Len(fp_a) # Len(fp_b)) => ret = Ok(F64(0))

\* C2: as soon as one of the two strings is empty (both included) the score
\* is 0.0, a number: no 0/0 is computed.
C2_EmptyScoresZero ==
    (ret # NotCalled /\ (Len(fp_a) = 0 \/ Len(fp_b) = 0))
        => ret = Ok(F64(0))

\* C3: two strings of the same non-zero length L that differ in d positions
\* score exactly 1 - d/L.
C3_EqualLengthScore ==
    (ret # NotCalled /\ Len(fp_a) = Len(fp_b) /\ Len(fp_a) > 0)
        => ret = Ok(Rat(Len(fp_a) - Differing(fp_a, fp_b), Len(fp_a)))

\* "111" against "101" has scored 2/3
C3_Witness ==
    /\ ret # NotCalled
    /\ fp_a = <<"1", "1", "1">>
    /\ fp_b = <<"1", "0", "1">>
    /\ ret = Ok(Rat(2, 3))

\* C4: for all inputs the score is a number in [0, 1], and it is 1.0
\* exactly when the two strings are identical.
C4_RangeAndIdentity ==
    ret # NotCalled =>
        /\ ret.tag = "Ok"
        /\ ret.val.kind = "num"
        /\ 0 <= ret.val.num /\ ret.val.num <= ret.val.den
        /\ (ret.val = F64(1)) <=> (fp_a = fp_b)

\* C5: hamming_distance(a, b) and hamming_distance(b, a) have the same
\* outcome and the same score.
C5_Symmetric ==
    (ret # NotCalled /\ ret_rev # NotCalled) => ret = ret_rev

----------------------------------------------------------------------------
(* The extractor on its own: compute_phash applied to one image *)

Coef == 0..MaxCoef
Channels == {1, 2, 3, 4}

PhashInit ==
    /\ build \in Builds
    /\ pc = "start"
    /\ length \in 1..MaxN
    /\ dct_length \in 1..MaxK
    /\ img \in [channels : Channels, cv_ok : BOOLEAN,
                 coef : [1..(length * length) -> Coef]]
    /\ phash_ret = NotCalled
    /\ fp_a = <<>> /\ fp_b = <<>> /\ ret = NotCalled /\ ret_rev = NotCalled
    /\ walk = <<>> /\ allowed_ext = <<>> /\ query = NoImage
    /\ all_image_file = NotCalled
    /\ result = NotCalled

\* compute_phash(&img, length, dct_length)
ComputePhash ==
    /\ pc = "start"
    /\ phash_ret' = compute_phash(img, length, dct_length)
    /\ pc' = "done"
    /\ UNCHANGED <<build, fp_a, fp_b, ret, ret_rev, img, length, dct_length,
                   walk, allowed_ext, query, all_image_file, result>>

PhashNext == ComputePhash

SpecPhash == PhashInit /\ [][PhashNext]_vars

\* the coefficient T(row, col) of the row-major len x len buffer of img
T(row, col) == img.coef[row * length + col + 1]

\* (sum of T over the K x K block, minus T(0, 0)) / (N*N - 1)
RECURSIVE BlockSum(_)
BlockSum(cells) ==
    IF cells = {} THEN 0
    ELSE LET c == CHOOSE x \in cells : TRUE
         IN  T(c[1], c[2]) + BlockSum(cells \ {c})

BlockMean ==
    F64Div(F64(BlockSum((0..(dct_length - 1)) \X (0..(dct_length - 1)))
               - T(0, 0)),
           F64(length * length - 1))

\* C10: where the K x K block lies inside the N x N buffer and the image is
\* one the preprocessing accepts, the extractor returns K*K bits in
\* row-major order: the bit at position row*K + col is 0 if T(row, col) is
\* strictly below the mean and 1 otherwise.
C10_RowMajorBits ==
    (/\ pc = "done"
     /\ img.channels \in {1, 3, 4} /\ img.cv_ok
     /\ dct_length <= length)
        => /\ phash_ret.tag = "Ok"
           /\ Len(phash_ret.val) = dct_length * dct_length
           /\ \A row, col \in 0..(dct_length - 1) :
                 phash_ret.val[row * dct_length + col + 1] =
                     (IF F64Lt(F64(T(row, col)), BlockMean) THEN "0" ELSE "1")

----------------------------------------------------------------------------
(* The program: one batch command over one directory *)

File(p, r) == [tag |-> "Ok", path |-> p, imread |-> r]

\* the entries a walk can yield
DirEntries ==
    { File(<<"a", ".", "p", "n", "g">>, Ok(Img1)),
      File(<<"b", ".", "p", "n", "g">>, Ok(Img2)),
      File(<<"c", ".", "j", "p", "g">>, Ok(Img3)),
      File(<<"d", ".", "j", "p", "e", "g">>, Ok(Img1)),
      File(<<"e", ".", "p", "n", "g">>, Err("OpenCV")),
      File(<<"f", ".", "p", "n", "g">>, Ok(ImgEmpty)),
      File(<<"g", BadByte, ".", "p", "n", "g">>, Ok(Img2)),
      [tag |-> "Err"] }

QueryImages == {Img1, Img4, ImgEmpty, ImgTwoChannels}

ExtLists == { <<(<<"p", "n", "g">>), (<<"j", "p", "g">>),
                (<<"j", "p", "e", "g">>)>>,
              <<(<<"p", "n", "g">>)>> }

\* the walks: up to MaxFiles distinct entries in any order
Walks ==
    UNION {{w \in [1..n -> DirEntries] :
              \A i, j \in 1..n : i # j => w[i] # w[j]} : n \in 0..MaxFiles}

Init ==
    /\ build \in Builds
    /\ pc = "start"
    /\ walk \in Walks
    /\ allowed_ext \in ExtLists
    /\ query = NoImage
    /\ all_image_file = NotCalled
    /\ result = NotCalled
    /\ fp_a = <<>> /\ fp_b = <<>> /\ ret = NotCalled /\ ret_rev = NotCalled
    /\ img = NoImage /\ length = 0 /\ dct_length = 0
    /\ phash_ret = NotCalled

\* compare_directory: similarity_directory(directory, &exts)
SimilarityDirectory ==
    /\ pc = "start"
    /\ all_image_file' = compute_phash_directory(walk, allowed_ext)
    /\ result' = similarity_directory(walk, allowed_ext)
    /\ pc' = "similarity_directory"
    /\ UNCHANGED <<build, fp_a, fp_b, ret, ret_rev, img, length, dct_length,
                   phash_ret, walk, allowed_ext, query>>

\* compare_match: similarity_file_directory(&image, directory, &exts)
SimilarityFileDirectory ==
    /\ pc = "start"
    /\ \E image \in QueryImages :
          /\ query' = image
          /\ all_image_file' =
                IF Phash64x16[image].tag = "Err"
                THEN NotCalled
                ELSE compute_phash_directory(walk, allowed_ext)
          /\ result' = similarity_file_directory(image, walk, allowed_ext)
    /\ pc' = "similarity_file_directory"
    /\ UNCHANGED <<build, fp_a, fp_b, ret, ret_rev, img, length, dct_length,
                   phash_ret, walk, allowed_ext>>

Next == SimilarityDirectory \/ SimilarityFileDirectory

Spec == Init /\ [][Next]_vars

\* the corpus of the finished command, its size, and the query's fingerprint
Corpus == all_image_file.val
CorpusBuilt == all_image_file.tag = "Ok"
QueryPhash == Phash64x16[query]

\* a list of results is in non-increasing order of score
SortedDesc(list) ==
    \A k \in 1..(Len(list) - 1) :
        /\ list[k][1].kind = "num" /\ list[k + 1][1].kind = "num"
        /\ ~F64Lt(list[k][1], list[k + 1][1])

\* how many times x occurs in list
Occurrences(list, x) == Cardinality({k \in 1..Len(list) : list[k] = x})

\* C6: similarity_directory on a corpus of m >= 2 entries returns
\* m(m-1)/2 results, each pair i < j exactly once as (score, id_i, id_j),
\* no entry paired with itself, in non-increasing order of score.
C6_AllPairsRanked ==
    (pc = "similarity_directory" /\ CorpusBuilt /\ Len(Corpus) >= 2) =>
        /\ result.tag = "Some"
        /\ 2 * Len(result.val) = Len(Corpus) * (Len(Corpus) - 1)
        /\ \A i, j \in 1..Len(Corpus) :
              i < j =>
                Occurrences(result.val,
                    <<hamming_distance(Corpus[i][2], Corpus[j][2]).val,
                      Corpus[i][1], Corpus[j][1]>>) = 1
        /\ \A k \in 1..Len(result.val) : result.val[k][2] # result.val[k][3]
        /\ SortedDesc(result.val)

\* three entries were ranked, with different scores, and the pair ranked
\* first is not the pair scored first
C6_Witness ==
    /\ pc = "similarity_directory" /\ CorpusBuilt /\ Len(Corpus) = 3
    /\ result.tag = "Some" /\ Len(result.val) = 3
    /\ F64Lt(result.val[3][1], result.val[1][1])
    /\ <<result.val[1][2], result.val[1][3]>> # <<Corpus[1][1], Corpus[2][1]>>

\* C7: similarity_directory returns None on an empty corpus and the one
\* result (1.0, id, id) on a corpus of the single entry id.
C7_DegenerateCorpus ==
    (pc = "similarity_directory" /\ CorpusBuilt) =>
        /\ Len(Corpus) = 0 => result = None
        /\ Len(Corpus) = 1 =>
              result = [tag |-> "Some",
                        val |-> <<(<<F64(1), Corpus[1][1], Corpus[1][1]>>)>>]

\* a walk of two or more entries left a corpus of one, ranked with itself
C7_Witness ==
    /\ pc = "similarity_directory" /\ CorpusBuilt /\ Len(Corpus) = 1
    /\ Len(walk) >= 2
    /\ result.tag = "Some" /\ Len(result.val) = 1
    /\ result.val[1][2] = result.val[1][3]

\* C8: similarity_file_directory with a query that fingerprints returns
\* Ok(None) on an empty corpus and otherwise one (score, id) per corpus
\* entry and nothing else, in non-increasing order of score.
C8_QueryRanked ==
    (pc = "similarity_file_directory" /\ QueryPhash.tag = "Ok"
     /\ CorpusBuilt) =>
        /\ Len(Corpus) = 0 => result = Ok(None)
        /\ Len(Corpus) >= 1 =>
              /\ result.tag = "Ok" /\ result.val.tag = "Some"
              /\ Len(result.val.val) = Len(Corpus)
              /\ \A i \in 1..Len(Corpus) :
                    Occurrences(result.val.val,
                        <<hamming_distance(QueryPhash.val, Corpus[i][2]).val,
                          Corpus[i][1]>>) = 1
              /\ SortedDesc(result.val.val)

\* a query was ranked against three entries, with different scores, and
\* the entry ranked first is not the first of the corpus
C8_Witness ==
    /\ pc = "similarity_file_directory" /\ CorpusBuilt /\ Len(Corpus) = 3
    /\ result.tag = "Ok" /\ result.val.tag = "Some"
    /\ Len(result.val.val) = 3
    /\ F64Lt(result.val.val[3][1], result.val.val[1][1])
    /\ result.val.val[1][2] # Corpus[1][1]

\* an entry of the walk that belongs in the corpus: its extension is
\* allowed, it decodes and it fingerprints
Accepted(e) ==
    /\ e.tag = "Ok"
    /\ \E i \in 1..Len(allowed_ext) : allowed_ext[i] = LastPart(e.path)
    /\ e.imread.tag = "Ok"
    /\ Phash64x16[e.imread.val].tag = "Ok"

ExpectedCorpus ==
    LET kept == SelectSeq(walk, Accepted)
    IN  [k \in 1..Len(kept) |->
            <<kept[k].path, Phash64x16[kept[k].imread.val].val>>]

\* C9: whatever the walk yields, the corpus is the accepted entries in walk
\* order and the batch result is produced; a query image that fails to
\* fingerprint gives an error.
C9_CorpusIsFilteredWalk ==
    /\ pc = "similarity_directory" =>
          /\ all_image_file = Ok(ExpectedCorpus)
          /\ result.tag # "Panic"
    /\ pc = "similarity_file_directory" =>
          IF QueryPhash.tag = "Err"
          THEN result.tag = "Err"
          ELSE /\ all_image_file = Ok(ExpectedCorpus)
               /\ result.tag # "Panic"

\* the same statement for the walks whose paths are all valid UTF-8
Utf8Walk == \A i \in 1..Len(walk) :
                walk[i].tag = "Ok" => to_str(walk[i].path) # None

C9_Utf8Walks == Utf8Walk => C9_CorpusIsFilteredWalk

====
